---- MODULE Spec2Model ----
(***************************************************************************)
(* YOLOv3 decode-and-suppress pipeline of YOLOv3_DetectObjectFromImage:    *)
(* the still-image cell (cell 10) and the video loop (cell 11).            *)
(*                                                                         *)
(* Numbers.  Normalised coordinates and class scores are rationals in      *)
(* tenths (5 stands for 0.5); pixel quantities are integers.  Thresholds   *)
(* are in tenths as well.  An overlap is a pair <<num, den>>.              *)
(* Indices returned by NMSBoxes and used by the render loop are 0-based,   *)
(* as in the notebook; element i of a Python list is element i+1 of the    *)
(* sequence that models it.                                                *)
(***************************************************************************)
EXTENDS Integers, Sequences, FiniteSets, TLC

VARIABLES
    mode,            \* "image" (cell 10), "video" (cell 11), or a function-level run
    pc,              \* position in the cell
    capOpen,         \* cap = cv2.VideoCapture(0) is open
    capReleases,     \* number of cap.release() calls
    winOpen,         \* the "Image" window exists
    winDestroys,     \* number of cv2.destroyAllWindows() calls
    frame_id,        \* frame counter of the video loop
    width, height,   \* frame.shape / img.shape
    outs,            \* net.forward(...): a sequence of tensors, each a sequence of rows
    boxes, confidences, class_ids,
    indexes,         \* result of cv2.dnn.NMSBoxes, in the order it was built
    rendered,        \* rectangles drawn in this frame, in drawing order
    key,             \* last value of cv2.waitKey(1); -1 is "no key"
    err,             \* the exception that ended the cell, or "none"
    conf_threshold,  \* literal of the decode test (0.5 / 0.2)
    score_threshold, \* 3rd argument of NMSBoxes
    nms_threshold,   \* 4th argument of NMSBoxes
    indexes2,        \* a second NMSBoxes result, kept beside indexes for comparison
    starting_time    \* starting_time = time.time(), on the clock of the model

vars == <<mode, pc, capOpen, capReleases, winOpen, winDestroys, frame_id, width,
          height, outs, boxes, confidences, class_ids, indexes, rendered, key,
          err, conf_threshold, score_threshold, nms_threshold, indexes2,
          starting_time>>

---------------------------------------------------------------------------
(* Bounds of the model *)

\* classes = [line.strip() for line in f.readlines()]: the class names
classes == <<"person", "bicycle">>
\* len(classes), the size of the colors table as well; class ids are 0..K-1
K == Len(classes)
\* most rows the network returns for one frame (over all output tensors)
MaxRows == 3
\* most frames the video loop reads
MaxFrames == 2
\* most detections handed to NMSBoxes in the function-level runs
MaxDet == 3

(* Literals of the notebook, in tenths where they are fractions *)
ImageConfThreshold == 5
VideoConfThreshold == 2
ImageScoreThreshold == 4
ImageNmsThreshold == 6
VideoScoreThreshold == 8
VideoNmsThreshold == 3
EscKey == 27

---------------------------------------------------------------------------
(* Python / numpy primitives *)

Max(a, b) == IF a >= b THEN a ELSE b
Min(a, b) == IF a <= b THEN a ELSE b

\* int(num/den) for den > 0, computed with floor division: the mutant of PyInt
IntFloor(num, den) == num \div den

\* int(num/den) for den > 0: Python's int() of a float truncates toward zero
PyInt(num, den) == IF num >= 0 THEN num \div den ELSE -((-num) \div den)

\* np.argmax(scores), 0-based: the first position holding the maximum.
\* Only called on a non-empty sequence (np.argmax of an empty one raises).
argmax(scores) ==
    LET best == CHOOSE i \in 1..Len(scores) :
                    /\ \A j \in 1..Len(scores) : scores[j] <= scores[i]
                    /\ \A j \in 1..(i - 1) : scores[j] < scores[i]
    IN  best - 1

\* the rows of all tensors in the order "for out in outs: for detection in out"
RECURSIVE Rows(_)
Rows(o) == IF o = <<>> THEN <<>> ELSE Head(o) \o Rows(Tail(o))

---------------------------------------------------------------------------
(* Detection decode loop: cell 10 lines 113-136, cell 11 lines 185-205 *)

\* "if confidence >= threshold": the mutant of Accepts
AcceptsGeq(confidence, thr) == confidence >= thr

\* "if confidence > 0.5:" / "if confidence > 0.2:"
Accepts(confidence, thr) == confidence > thr

\* [x, y, w, h] of an accepted row; d.cx, d.cy, d.w, d.h are in tenths
DecodeBox(d, wd, ht) ==
    LET center_x == PyInt(d.cx * wd, 10)
        center_y == PyInt(d.cy * ht, 10)
        w == PyInt(d.w * wd, 10)
        h == PyInt(d.h * ht, 10)
        x == PyInt(2 * center_x - w, 2)
        y == PyInt(2 * center_y - h, 2)
    IN  <<x, y, w, h>>

\* One pass of the loop body over row d.  acc holds the three lists and the
\* exception raised so far; once an exception is raised nothing more runs.
DecodeRow(acc, d, wd, ht, thr) ==
    IF acc.err # "none" THEN acc
    ELSE IF Len(d.scores) = 0
    THEN [acc EXCEPT !.err = "ValueError"]   \* np.argmax of an empty array
    ELSE LET class_id == argmax(d.scores)
             confidence == d.scores[class_id + 1]
         IN  IF Accepts(confidence, thr)
             THEN [boxes |-> Append(acc.boxes, DecodeBox(d, wd, ht)),
                   confidences |-> Append(acc.confidences, confidence),
                   class_ids |-> Append(acc.class_ids, class_id),
                   err |-> "none"]
             ELSE acc

RECURSIVE DecodeLoop(_, _, _, _, _)
DecodeLoop(acc, rows, wd, ht, thr) ==
    IF rows = <<>> THEN acc
    ELSE DecodeLoop(DecodeRow(acc, Head(rows), wd, ht, thr), Tail(rows), wd, ht, thr)

---------------------------------------------------------------------------
(* cv2.dnn.NMSBoxes(bboxes, scores, score_threshold, nms_threshold), as the *)
(* library computes it (OpenCV dnn, nms.inl.hpp: GetMaxScoreIndex and       *)
(* NMSFast_ with eta = 1 and top_k = 0; core types.hpp: jaccardDistance).   *)

Area(b) == b[3] * b[4]

\* (a & b).area(): the intersection rectangle is empty when either side <= 0
InterArea(a, b) ==
    LET x1 == Max(a[1], b[1])
        y1 == Max(a[2], b[2])
        w == Min(a[1] + a[3], b[1] + b[3]) - x1
        h == Min(a[2] + a[4], b[2] + b[4]) - y1
    IN  IF w <= 0 \/ h <= 0 THEN 0 ELSE w * h

\* intersection over the sum of the areas (the intersection is not taken off
\* the union): the mutant of rectOverlap
rectOverlapNoUnion(a, b) ==
    IF Area(a) + Area(b) <= 0 THEN <<1, 1>>
    ELSE <<InterArea(a, b), Area(a) + Area(b)>>

\* 1 - jaccardDistance(a, b) as <<num, den>>.  jaccardDistance returns 0
\* (overlap 1) when Aa + Ab <= 0, else 1 - Aab / (Aa + Ab - Aab).
rectOverlap(a, b) ==
    IF Area(a) + Area(b) <= 0 THEN <<1, 1>>
    ELSE <<InterArea(a, b), Area(a) + Area(b) - InterArea(a, b)>>

\* "if (scores[i] >= threshold)": the mutant of PassesScore
PassesScoreGeq(score, thr) == score >= thr

\* GetMaxScoreIndex: "if (scores[i] > threshold)"
PassesScore(score, thr) == score > thr

\* SortScorePairDescend, reversed: the mutant of SortsBefore
SortsBeforeAscending(s1, s2) == s1 < s2

\* SortScorePairDescend: pair1.first > pair2.first
SortsBefore(s1, s2) == s1 > s2

\* std::stable_sort step: idx goes before the first element it sorts before
RECURSIVE StableInsert(_, _, _)
StableInsert(sorted, idx, scores) ==
    IF sorted = <<>> THEN <<idx>>
    ELSE IF SortsBefore(scores[idx + 1], scores[Head(sorted) + 1])
         THEN <<idx>> \o sorted
         ELSE <<Head(sorted)>> \o StableInsert(Tail(sorted), idx, scores)

\* GetMaxScoreIndex: the 0-based indices whose score passes, stably sorted by
\* score descending.  i runs over 0..Len(scores)-1.
RECURSIVE GetMaxScoreIndex(_, _, _)
GetMaxScoreIndex(scores, thr, i) ==
    IF i < 0 THEN <<>>
    ELSE LET rest == GetMaxScoreIndex(scores, thr, i - 1)
         IN  IF PassesScore(scores[i + 1], thr)
             THEN StableInsert(rest, i, scores)
             ELSE rest

\* "keep = overlap <= adaptive_threshold"
Keeps(ov, thr) == ov[1] * 10 <= thr * ov[2]

\* indices.push_back(i) with the rank i in place of idx: the mutant of Pushed
PushedRank(idx, rank) == rank

\* indices.push_back(idx)
Pushed(idx, rank) == idx

\* NMSFast_: walk the sorted candidates; keep one when its overlap with every
\* index kept so far is <= nms_threshold.
RECURSIVE NMSFast(_, _, _, _, _)
NMSFast(bboxes, cands, rank, indices, thr) ==
    IF rank > Len(cands) THEN indices
    ELSE LET idx == cands[rank]
             keep == \A k \in 1..Len(indices) :
                        Keeps(rectOverlap(bboxes[idx + 1], bboxes[indices[k] + 1]), thr)
         IN  NMSFast(bboxes, cands, rank + 1,
                     IF keep THEN Append(indices, Pushed(idx, rank - 1)) ELSE indices,
                     thr)

NMSBoxes(bboxes, scores, score_thr, nms_thr) ==
    NMSFast(bboxes, GetMaxScoreIndex(scores, score_thr, Len(scores) - 1), 1, <<>>, nms_thr)

\* "i in indexes"
In(i, idxs) == \E k \in 1..Len(idxs) : idxs[k] = i

---------------------------------------------------------------------------
(* Inputs of the cells: what net.forward can return *)

OneHot(len, pos, c) == [i \in 1..len |-> IF i = pos THEN c ELSE 0]

Row(g, scores) == [cx |-> g[1], cy |-> g[2], w |-> g[3], h |-> g[4], scores |-> scores]

GeoA == <<5, 5, 2, 3>>     \* (166, 146, 83, 124) in a 416 x 416 frame
GeoB == <<5, 5, 2, 6>>     \* (166, 83, 83, 249): contains A, IoU 124/249

\* rows with one score per class
WellFormedRows ==
    { Row(GeoA, OneHot(K, 1, 9)), Row(GeoA, OneHot(K, K, 8)),
      Row(GeoB, OneHot(K, K, 9)), Row(GeoA, OneHot(K, 1, 5)) }

\* rows whose score vector is longer than the class list, or empty
MalformedRows == { Row(GeoA, OneHot(K + 1, K + 1, 9)), Row(GeoB, <<>>) }

RowSet == WellFormedRows \cup MalformedRows

SeqsUpTo(S, n) == UNION { [1..m -> S] : m \in 0..n }

\* the rows arrive in two output tensors
Split(s) == <<SubSeq(s, 1, Len(s) \div 2), SubSeq(s, Len(s) \div 2 + 1, Len(s))>>

OutsSet == { Split(s) : s \in SeqsUpTo(RowSet, MaxRows) }

FrameShapes == { <<416, 416>> }     \* <<width, height>>

Keys == { -1, EscKey, 113 }

---------------------------------------------------------------------------
(* The cells as a state machine *)

Init ==
    /\ mode \in {"image", "video"}
    /\ pc = "acquire"
    /\ capOpen = (mode = "video")          \* cap = cv2.VideoCapture(0)
    /\ capReleases = 0
    /\ winOpen = FALSE
    /\ winDestroys = 0
    /\ frame_id = 0
    /\ width = 0 /\ height = 0
    /\ outs = <<>>
    /\ boxes = <<>> /\ confidences = <<>> /\ class_ids = <<>>
    /\ indexes = <<>>
    /\ rendered = <<>>
    /\ key = -1
    /\ err = "none"
    /\ conf_threshold = IF mode = "image" THEN ImageConfThreshold ELSE VideoConfThreshold
    /\ score_threshold = IF mode = "image" THEN ImageScoreThreshold ELSE VideoScoreThreshold
    /\ nms_threshold = IF mode = "image" THEN ImageNmsThreshold ELSE VideoNmsThreshold
    /\ indexes2 = <<>>
    /\ starting_time = 0

Resources == <<capOpen, capReleases, winOpen, winDestroys>>
Thresholds == <<conf_threshold, score_threshold, nms_threshold>>
Lists == <<boxes, confidences, class_ids>>

\* the iteration without lines 185-187 (the lists are not emptied): the
\* mutant of Read
ReadKeepLists ==
    /\ mode = "video" /\ pc = "acquire"
    /\ frame_id < MaxFrames
    /\ frame_id' = frame_id + 1
    /\ \E shape \in FrameShapes : width' = shape[1] /\ height' = shape[2]
    /\ outs' \in OutsSet
    /\ rendered' = <<>>
    /\ pc' = "decode"
    /\ UNCHANGED <<mode, Resources, Lists, indexes, key, err, Thresholds, starting_time,
                   indexes2>>

\* cell 11 lines 173-187 with a frame delivered: read, count, shape, forward,
\* and the three lists emptied
Read ==
    /\ mode = "video" /\ pc = "acquire"
    /\ frame_id < MaxFrames
    /\ frame_id' = frame_id + 1
    /\ \E shape \in FrameShapes : width' = shape[1] /\ height' = shape[2]
    /\ outs' \in OutsSet
    /\ boxes' = <<>> /\ confidences' = <<>> /\ class_ids' = <<>>
    /\ rendered' = <<>>                    \* a fresh frame carries no drawing
    /\ pc' = "decode"
    /\ UNCHANGED <<mode, Resources, indexes, key, err, Thresholds, starting_time, indexes2>>

\* cell 11 lines 173-176 when cap.read() returns (False, None): frame.shape
\* raises and the cell stops there
ReadFail ==
    /\ mode = "video" /\ pc = "acquire"
    /\ frame_id < MaxFrames
    /\ frame_id' = frame_id + 1
    /\ pc' = "error"
    /\ err' = "AttributeError"
    /\ UNCHANGED <<mode, Resources, width, height, outs, Lists, indexes, rendered,
                   key, Thresholds, starting_time, indexes2>>

\* cells 6-8 lines 75-115: imread, resize, shape, forward, the lists emptied
LoadImage ==
    /\ mode = "image" /\ pc = "acquire"
    /\ \E shape \in FrameShapes : width' = shape[1] /\ height' = shape[2]
    /\ outs' \in OutsSet
    /\ boxes' = <<>> /\ confidences' = <<>> /\ class_ids' = <<>>
    /\ rendered' = <<>>
    /\ pc' = "decode"
    /\ UNCHANGED <<mode, Resources, frame_id, indexes, key, err, Thresholds, starting_time, indexes2>>

\* cell 6 lines 75-76 when imread returns None: cv2.resize raises
LoadImageFail ==
    /\ mode = "image" /\ pc = "acquire"
    /\ pc' = "error"
    /\ err' = "cv2.error"
    /\ UNCHANGED <<mode, Resources, frame_id, width, height, outs, Lists, indexes,
                   rendered, key, Thresholds, starting_time, indexes2>>

\* lines 116-136 / 188-205
Decode ==
    /\ pc = "decode"
    /\ LET r == DecodeLoop([boxes |-> boxes, confidences |-> confidences,
                            class_ids |-> class_ids, err |-> "none"],
                           Rows(outs), width, height, conf_threshold)
       IN  /\ boxes' = r.boxes
           /\ confidences' = r.confidences
           /\ class_ids' = r.class_ids
           /\ err' = r.err
           /\ pc' = IF r.err = "none" THEN "suppress" ELSE "error"
    /\ UNCHANGED <<mode, Resources, frame_id, width, height, outs, indexes, rendered,
                   key, Thresholds, starting_time, indexes2>>

\* per-class suppression, as NMSBoxesBatched does it (boxes of different
\* classes are moved apart before the same routine runs): the mutant of Suppression
SuppressionBatched ==
    NMSBoxes([i \in 1..Len(boxes) |->
                 <<boxes[i][1] + class_ids[i] * 100000, boxes[i][2], boxes[i][3], boxes[i][4]>>],
             confidences, score_threshold, nms_threshold)

\* cv2.dnn.NMSBoxes(boxes, confidences, 0.4, 0.6) / (..., 0.8, 0.3)
Suppression == NMSBoxes(boxes, confidences, score_threshold, nms_threshold)

\* line 138 / 207
Suppress ==
    /\ pc = "suppress"
    /\ indexes' = Suppression
    /\ pc' = "render"
    /\ UNCHANGED <<mode, Resources, frame_id, width, height, outs, Lists, rendered,
                   key, err, Thresholds, starting_time, indexes2>>

\* colors[i] in cell 10 (line 146), colors[class_ids[i]] in cell 11 (line 214)
ColorIndex(m, i, ids) == IF m = "image" THEN i ELSE ids[i + 1]

\* "for i in indexes: ...": the retained detections drawn in the order
\* NMSBoxes returned them; i counts the positions of idxs.  The mutant of
\* RenderLoop
RECURSIVE RenderLoopByRank(_, _, _, _, _, _)
RenderLoopByRank(acc, i, m, bxs, ids, idxs) ==
    IF i >= Len(idxs) \/ acc.err # "none" THEN acc
    ELSE IF ids[idxs[i + 1] + 1] >= K
    THEN [acc EXCEPT !.err = "IndexError"]
    ELSE IF ColorIndex(m, idxs[i + 1], ids) >= K
    THEN [acc EXCEPT !.err = "IndexError"]
    ELSE RenderLoopByRank([acc EXCEPT !.drawn = Append(@,
                        [i |-> idxs[i + 1], box |-> bxs[idxs[i + 1] + 1],
                         label |-> classes[ids[idxs[i + 1] + 1] + 1],
                         color |-> ColorIndex(m, idxs[i + 1], ids)])],
                    i + 1, m, bxs, ids, idxs)

\* "for i in range(len(boxes)): if i in indexes: ..." from i on; acc holds the
\* drawings and the exception raised so far
RECURSIVE RenderLoop(_, _, _, _, _, _)
RenderLoop(acc, i, m, bxs, ids, idxs) ==
    IF i >= Len(bxs) \/ acc.err # "none" THEN acc
    ELSE IF ~In(i, idxs) THEN RenderLoop(acc, i + 1, m, bxs, ids, idxs)
    ELSE IF ids[i + 1] >= K
    THEN [acc EXCEPT !.err = "IndexError"]           \* classes[class_ids[i]]
    ELSE IF ColorIndex(m, i, ids) >= K
    THEN [acc EXCEPT !.err = "IndexError"]           \* colors[...]
    ELSE RenderLoop([acc EXCEPT !.drawn = Append(@,
                        [i |-> i, box |-> bxs[i + 1], label |-> classes[ids[i + 1] + 1],
                         color |-> ColorIndex(m, i, ids)])],
                    i + 1, m, bxs, ids, idxs)

\* the render loop and imshow, with the still-image cell going on to
\* destroyAllWindows without cv2.waitKey(0): the mutant of Render
RenderNoWait ==
    /\ mode \in {"image", "video"} /\ pc = "render"
    /\ LET r == RenderLoop([drawn |-> rendered, err |-> "none"], 0, mode, boxes,
                           class_ids, indexes)
       IN  /\ rendered' = r.drawn
           /\ err' = r.err
           /\ winOpen' = IF r.err = "none" THEN TRUE ELSE winOpen
           /\ pc' = IF r.err # "none" THEN "error"
                    ELSE IF mode = "image" THEN "teardown" ELSE "poll"
    /\ UNCHANGED <<mode, capOpen, capReleases, winDestroys, frame_id, width, height,
                   outs, Lists, indexes, key, Thresholds, starting_time, indexes2>>

\* lines 141-150 / 209-223: the render loop, then imshow
Render ==
    /\ mode \in {"image", "video"} /\ pc = "render"
    /\ LET r == RenderLoop([drawn |-> rendered, err |-> "none"], 0, mode, boxes,
                           class_ids, indexes)
       IN  /\ rendered' = r.drawn
           /\ err' = r.err
           /\ winOpen' = IF r.err = "none" THEN TRUE ELSE winOpen
           /\ pc' = IF r.err # "none" THEN "error"
                    ELSE IF mode = "image" THEN "waitkey" ELSE "poll"
    /\ UNCHANGED <<mode, capOpen, capReleases, winDestroys, frame_id, width, height,
                   outs, Lists, indexes, key, Thresholds, starting_time, indexes2>>

\* "key = cv2.waitKey(1); if key == 27: break", but the loop goes on: the
\* mutant of Poll
PollNoBreak ==
    /\ mode = "video" /\ pc = "poll"
    /\ key' \in Keys
    /\ pc' = "acquire"
    /\ UNCHANGED <<mode, Resources, frame_id, width, height, outs, Lists, indexes,
                   rendered, err, Thresholds, starting_time, indexes2>>

\* lines 224-226: key = cv2.waitKey(1); if key == 27: break
Poll ==
    /\ mode = "video" /\ pc = "poll"
    /\ key' \in Keys
    /\ pc' = IF key' = EscKey THEN "release" ELSE "acquire"
    /\ UNCHANGED <<mode, Resources, frame_id, width, height, outs, Lists, indexes,
                   rendered, err, Thresholds, starting_time, indexes2>>

\* lines 228-229: cap.release(); cv2.destroyAllWindows()
Release ==
    /\ mode = "video" /\ pc = "release"
    /\ capOpen' = FALSE
    /\ capReleases' = capReleases + 1
    /\ winOpen' = FALSE
    /\ winDestroys' = winDestroys + 1
    /\ pc' = "done"
    /\ UNCHANGED <<mode, frame_id, width, height, outs, Lists, indexes, rendered,
                   key, err, Thresholds, starting_time, indexes2>>

\* line 151: cv2.waitKey(0) returns when a key is pressed
WaitKey ==
    /\ mode = "image" /\ pc = "waitkey"
    /\ pc' = "teardown"
    /\ UNCHANGED <<mode, Resources, frame_id, width, height, outs, Lists, indexes,
                   rendered, key, err, Thresholds, starting_time, indexes2>>

\* line 152: cv2.destroyAllWindows()
Teardown ==
    /\ mode = "image" /\ pc = "teardown"
    /\ winOpen' = FALSE
    /\ winDestroys' = winDestroys + 1
    /\ pc' = "done"
    /\ UNCHANGED <<mode, capOpen, capReleases, frame_id, width, height, outs, Lists,
                   indexes, rendered, key, err, Thresholds, starting_time, indexes2>>

Next ==
    \/ Read \/ ReadFail \/ LoadImage \/ LoadImageFail
    \/ Decode \/ Suppress \/ Render
    \/ Poll \/ Release \/ WaitKey \/ Teardown

Spec == Init /\ [][Next]_vars

---------------------------------------------------------------------------
(* The decode loop on its own: any row, frame shape and threshold *)

DecRowSet ==
    { Row(<<cx, cy, w, h>>, OneHot(K, pos, c)) :
        cx \in {0, 5, 9}, cy \in {0, 5}, w \in {0, 2, 3, 10}, h \in {0, 3},
        pos \in {1, K}, c \in {1, 2, 3, 5, 6} }
    \cup MalformedRows

DecShapes == { <<416, 416>>, <<10, 20>>, <<7, 5>> }

InitDecode ==
    /\ mode = "decode"
    /\ pc = "decode"
    /\ capOpen = FALSE /\ capReleases = 0 /\ winOpen = FALSE /\ winDestroys = 0
    /\ frame_id = 0
    /\ \E shape \in DecShapes : width = shape[1] /\ height = shape[2]
    /\ outs \in { Split(<<r>>) : r \in DecRowSet }
              \cup { Split(<<r1, r2>>) : r1 \in DecRowSet, r2 \in RowSet }
    /\ boxes = <<>> /\ confidences = <<>> /\ class_ids = <<>>
    /\ indexes = <<>>
    /\ rendered = <<>>
    /\ key = -1
    /\ err = "none"
    /\ conf_threshold \in {ImageConfThreshold, VideoConfThreshold}
    /\ score_threshold = ImageScoreThreshold
    /\ nms_threshold = ImageNmsThreshold
    /\ indexes2 = <<>>
    /\ starting_time = 0

NextDecode == Decode

SpecDecode == InitDecode /\ [][NextDecode]_vars

---------------------------------------------------------------------------
(* NMSBoxes on its own: any detection set and threshold pair *)

\* three nested boxes with IoU 9/10, 5/10 and 5/9, and two boxes of zero area
\* that lie apart from each other
BoxSet == { <<0, 0, 10, 1>>, <<0, 0, 9, 1>>, <<0, 0, 5, 1>>, <<5, 5, 0, 0>>,
            <<20, 20, 0, 4>> }

ConfSet == {6, 9}

InitNMS ==
    /\ mode = "nms"
    /\ pc = "suppress"
    /\ capOpen = FALSE /\ capReleases = 0 /\ winOpen = FALSE /\ winDestroys = 0
    /\ frame_id = 0
    /\ width = 0 /\ height = 0
    /\ outs = <<>>
    /\ \E n \in 0..MaxDet :
          /\ boxes \in [1..n -> BoxSet]
          /\ confidences \in [1..n -> ConfSet]
          /\ class_ids = [i \in 1..n |-> 0]
    /\ indexes = <<>>
    /\ rendered = <<>>
    /\ key = -1
    /\ err = "none"
    /\ conf_threshold = ImageConfThreshold
    /\ score_threshold \in {ImageScoreThreshold, VideoScoreThreshold}
    /\ nms_threshold \in {ImageNmsThreshold, VideoNmsThreshold}
    /\ indexes2 = <<>>
    /\ starting_time = 0

\* the elements of s at the 0-based positions in idxs, in the order of s
RECURSIVE Selected(_, _, _)
Selected(s, idxs, i) ==
    IF i >= Len(s) THEN <<>>
    ELSE (IF In(i, idxs) THEN <<s[i + 1]>> ELSE <<>>) \o Selected(s, idxs, i + 1)

\* NMSBoxes called again on the detections it retained, same thresholds
NmsRerun ==
    /\ mode = "nms" /\ pc = "render"
    /\ indexes2' = NMSBoxes(Selected(boxes, indexes, 0), Selected(confidences, indexes, 0),
                            score_threshold, nms_threshold)
    /\ pc' = "reran"
    /\ UNCHANGED <<mode, Resources, frame_id, width, height, outs, Lists, indexes,
                   rendered, key, err, Thresholds, starting_time>>

\* one detection is given another class; the first result is remembered
NmsRelabel ==
    /\ mode = "nms" /\ pc = "render"
    /\ \E i \in 1..Len(class_ids) : class_ids' = [class_ids EXCEPT ![i] = K - 1]
    /\ indexes2' = indexes
    /\ pc' = "resuppress"
    /\ UNCHANGED <<mode, Resources, frame_id, width, height, outs, boxes, confidences,
                   indexes, rendered, key, err, Thresholds, starting_time>>

\* NMSBoxes called on the relabelled detections
NmsAgain ==
    /\ mode = "nms" /\ pc = "resuppress"
    /\ indexes' = Suppression
    /\ pc' = "relabelled"
    /\ UNCHANGED <<mode, Resources, frame_id, width, height, outs, Lists, rendered,
                   key, err, Thresholds, starting_time, indexes2>>

NextNMS == Suppress \/ NmsRerun \/ NmsRelabel \/ NmsAgain

SpecNMS == InitNMS /\ [][NextNMS]_vars

---------------------------------------------------------------------------
(* Vocabulary of the properties *)

\* the unit cells a pixel box covers; empty when an extent is zero or negative
Pixels(b) == { <<i, j>> : i \in b[1]..(b[1] + b[3] - 1), j \in b[2]..(b[2] + b[4] - 1) }

\* IoU(a, b) > thr/10, with IoU = |a n b| / |a u b| and the IoU of a box of
\* zero area with anything taken as 0
IoUExceeds(a, b, thr) ==
    /\ Pixels(a) # {} /\ Pixels(b) # {}
    /\ 10 * Cardinality(Pixels(a) \cap Pixels(b)) > thr * Cardinality(Pixels(a) \cup Pixels(b))

\* the same, except that two boxes of zero area overlap completely (overlap 1)
OverlapExceeds(a, b, thr) ==
    IF Pixels(a) = {} /\ Pixels(b) = {} THEN 10 > thr ELSE IoUExceeds(a, b, thr)

DetIdx == 0..(Len(boxes) - 1)
Retained(i) == \E k \in 1..Len(indexes) : indexes[k] = i

\* detection i is ranked before detection j: higher confidence, lower index on ties
Outranks(i, j) ==
    \/ confidences[i + 1] > confidences[j + 1]
    \/ confidences[i + 1] = confidences[j + 1] /\ i < j

\* the detections the score gate of the suppressor lets through
Gated == { i \in DetIdx : confidences[i + 1] > score_threshold }

\* t is num/den truncated toward zero (den > 0)
IsTrunc(t, num, den) ==
    /\ num >= 0 => (t >= 0 /\ den * t <= num /\ num < den * (t + 1))
    /\ num < 0 => (t <= 0 /\ den * t >= num /\ num > den * (t - 1))

\* the largest class score of a row that has scores
MaxScore(d) == CHOOSE m \in { d.scores[i] : i \in 1..Len(d.scores) } :
                  \A i \in 1..Len(d.scores) : d.scores[i] <= m

\* the rows the decode loop gets through: all of them, or those before the
\* first row without scores
Processed ==
    LET rows == Rows(outs)
        bad == { i \in 1..Len(rows) : Len(rows[i].scores) = 0 }
    IN  IF bad = {} THEN rows
        ELSE SubSeq(rows, 1, (CHOOSE i \in bad : \A j \in bad : i <= j) - 1)

IsAbove(d) == MaxScore(d) > conf_threshold
AcceptedRows == SelectSeq(Processed, IsAbove)

---------------------------------------------------------------------------
(* Properties *)

\* C1: when the loop has ended, by the stop key or by an error raised in
\* acquisition, inference, decode/suppress or rendering, the capture handle
\* and the display surface have been released; in no terminal state is the
\* capture handle still open.
C1_ReleasedOnEveryExit ==
    (mode = "video" /\ pc \in {"done", "error"}) => (~capOpen /\ ~winOpen)

StopObserved == mode = "video" /\ key = EscKey

\* C2: once the poll at the end of an iteration has returned key 27, no
\* further iteration happens (no frame is read, inferred, decoded or rendered),
\* the only step left is the release, and at the end the capture handle and
\* the display surface have each been released exactly once.
C2_StopEndsLoop ==
    /\ [](StopObserved => pc \in {"release", "done"})
    /\ [][StopObserved =>
            /\ frame_id' = frame_id /\ outs' = outs
            /\ boxes' = boxes /\ confidences' = confidences /\ class_ids' = class_ids
            /\ indexes' = indexes /\ rendered' = rendered
            /\ pc' = "done" /\ capReleases' = capReleases + 1
            /\ winDestroys' = winDestroys + 1]_vars
    /\ []((StopObserved /\ pc = "done") =>
            (capReleases = 1 /\ winDestroys = 1 /\ ~capOpen /\ ~winOpen))
    /\ [](mode = "video" => (capReleases <= 1 /\ winDestroys <= 1))

\* the stop key was seen at the end of the first iteration, bounds allowing
\* another, and the cell has ended
C2_Witness ==
    StopObserved /\ pc = "done" /\ frame_id = 1 /\ frame_id < MaxFrames /\ capReleases = 1

\* C3: after the decode loop every detection has a confidence strictly above
\* conf_threshold, and the detections are exactly the rows whose largest
\* score is above it: a row with confidence <= threshold, the boundary
\* confidence = threshold included, appends nothing.
C3_NoDetectionAtOrBelowThreshold ==
    (mode = "decode" /\ pc # "decode") =>
        /\ \A i \in 1..Len(confidences) : confidences[i] > conf_threshold
        /\ Len(boxes) = Len(AcceptedRows)
        /\ Len(confidences) = Len(AcceptedRows)
        /\ \A i \in 1..Len(AcceptedRows) : confidences[i] = MaxScore(AcceptedRows[i])

\* two rows were decoded, one exactly at the threshold and dropped, one kept
C3_Witness ==
    /\ mode = "decode" /\ pc = "suppress"
    /\ Len(Processed) = 2
    /\ MaxScore(Processed[1]) = conf_threshold
    /\ Len(boxes) = 1

\* the box the claim gives for row d in a frame of wd x ht
IsClaimedBox(b, d, wd, ht) ==
    /\ \E center_x \in 0..wd :
          /\ IsTrunc(center_x, d.cx * wd, 10)
          /\ IsTrunc(b[3], d.w * wd, 10)
          /\ IsTrunc(b[1], 2 * center_x - b[3], 2)
    /\ \E center_y \in 0..ht :
          /\ IsTrunc(center_y, d.cy * ht, 10)
          /\ IsTrunc(b[4], d.h * ht, 10)
          /\ IsTrunc(b[2], 2 * center_y - b[4], 2)

\* C4: the box of every accepted row is [x, y, box_w, box_h] with
\* center = trunc(c * size), extent = trunc(e * size) and
\* corner = trunc(center - extent/2), trunc being truncation toward zero;
\* cx = cy = 0.5, w = 0.2, h = 0.3 in a 416 x 416 frame gives (166, 146, 83, 124).
C4_TruncatedBox ==
    (mode = "decode" /\ pc # "decode") =>
        /\ Len(boxes) = Len(AcceptedRows)
        /\ \A i \in 1..Len(AcceptedRows) :
              /\ IsClaimedBox(boxes[i], AcceptedRows[i], width, height)
              /\ (/\ width = 416 /\ height = 416
                  /\ <<AcceptedRows[i].cx, AcceptedRows[i].cy, AcceptedRows[i].w,
                       AcceptedRows[i].h>> = <<5, 5, 2, 3>>)
                 => boxes[i] = <<166, 146, 83, 124>>

\* a row at the frame's corner, whose half extents are -41.5 and -62, and the
\* row of the example were both decoded
C4_Witness ==
    /\ mode = "decode" /\ pc = "suppress"
    /\ width = 416 /\ height = 416
    /\ Len(AcceptedRows) = 2
    /\ <<AcceptedRows[1].cx, AcceptedRows[1].cy, AcceptedRows[1].w, AcceptedRows[1].h>>
          = <<0, 0, 2, 3>>
    /\ boxes = << <<-41, -62, 83, 124>>, <<166, 146, 83, 124>> >>

NmsRan == mode = "nms" /\ pc \in {"render", "relabelled"}

\* C5: the indices NMSBoxes returns are indices of the detections it was
\* given, each at most once, and no two retained detections have an IoU
\* above nms_threshold.
C5_RetainedSubsetLowOverlap ==
    NmsRan =>
        /\ \A k \in 1..Len(indexes) : indexes[k] \in DetIdx
        /\ \A k1, k2 \in 1..Len(indexes) :
              k1 # k2 =>
                /\ indexes[k1] # indexes[k2]
                /\ ~IoUExceeds(boxes[indexes[k1] + 1], boxes[indexes[k2] + 1], nms_threshold)

\* two overlapping detections were both retained and a third was dropped
C5_Witness ==
    /\ NmsRan
    /\ Len(indexes) = 2 /\ Len(boxes) = 3
    /\ Pixels(boxes[indexes[1] + 1]) \cap Pixels(boxes[indexes[2] + 1]) # {}

\* the greedy selection, with Exceeds(a, b) standing for "the overlap of boxes
\* a and b is above nms_threshold"
GreedySelection(Exceeds(_, _)) ==
    /\ \A i \in Gated : (\A j \in Gated \ {i} : Outranks(i, j)) => Retained(i)
    /\ \A j \in Gated :
          ~Retained(j) <=>
             \E i \in Gated : /\ Retained(i) /\ Outranks(i, j)
                              /\ Exceeds(boxes[i + 1], boxes[j + 1])
    /\ \A i \in DetIdx : Retained(i) => i \in Gated

\* the example: IoU 0.9, confidences 0.9 and 0.6, overlap threshold 0.6
GreedyExample ==
    \A i, j \in DetIdx :
        (/\ Len(boxes) = 2 /\ nms_threshold = 6
         /\ confidences[i + 1] = 9 /\ confidences[j + 1] = 6 /\ 6 > score_threshold
         /\ 10 * Cardinality(Pixels(boxes[i + 1]) \cap Pixels(boxes[j + 1]))
               = 9 * Cardinality(Pixels(boxes[i + 1]) \cup Pixels(boxes[j + 1]))
         /\ Pixels(boxes[i + 1]) # {})
        => indexes = <<i>>

ExceedsIoU(a, b) == IoUExceeds(a, b, nms_threshold)
ExceedsOverlap(a, b) == OverlapExceeds(a, b, nms_threshold)

C7_Idempotent ==
    (mode = "nms" /\ pc = "reran") =>
        { indexes2[k] : k \in 1..Len(indexes2) } = 0..(Len(indexes) - 1)

\* the first run dropped a detection and retained two, and the second run is done
C7_Witness ==
    /\ mode = "nms" /\ pc = "reran"
    /\ Len(boxes) = 3 /\ Len(indexes) = 2 /\ Len(indexes2) = 2

\* C10: the retained set does not depend on the class ids: it is the same
\* after a detection is given another class, and a retained detection removes
\* every detection ranked after it whose IoU with it exceeds nms_threshold,
\* whatever their classes.
C10_ClassAgnostic ==
    (mode = "nms" /\ pc = "relabelled") =>
        /\ indexes = indexes2
        /\ \A i, j \in DetIdx :
              (/\ class_ids[i + 1] # class_ids[j + 1]
               /\ Retained(i) /\ Outranks(i, j)
               /\ IoUExceeds(boxes[i + 1], boxes[j + 1], nms_threshold))
              => ~Retained(j)

\* a retained detection of one class has removed an overlapping detection of
\* lower confidence of another class
C10_Witness ==
    /\ mode = "nms" /\ pc = "relabelled"
    /\ \E i, j \in DetIdx :
          /\ class_ids[i + 1] # class_ids[j + 1]
          /\ Retained(i) /\ ~Retained(j)
          /\ confidences[i + 1] > confidences[j + 1]
          /\ confidences[j + 1] > score_threshold
          /\ IoUExceeds(boxes[i + 1], boxes[j + 1], nms_threshold)
          /\ \A r \in DetIdx \ {i} : Retained(r) =>
                ~IoUExceeds(boxes[r + 1], boxes[j + 1], nms_threshold)

\* the suppressor has run on the lists of the current frame
FrameSuppressed ==
    /\ mode \in {"image", "video"}
    /\ pc \in {"render", "poll", "waitkey", "teardown", "release", "done"}

\* detection i was removed because a retained detection ranked before it
\* overlaps it by more than nms_threshold
Overlapped(i) ==
    \E j \in DetIdx :
        /\ Retained(j) /\ Outranks(j, i)
        /\ ~Keeps(rectOverlap(boxes[i + 1], boxes[j + 1]), nms_threshold)

\* what both statements of C8 share: no rendered detection of the video path
\* is below 0.8, and in the still-image path the score gate removes nothing
GatesCompose ==
    /\ mode = "video" =>
          \A k \in 1..Len(rendered) :
              confidences[rendered[k].i + 1] >= VideoScoreThreshold
    /\ (FrameSuppressed /\ mode = "image") =>
          \A i \in DetIdx : Retained(i) \/ Overlapped(i)
    /\ \A k \in 1..Len(rendered) :
          /\ confidences[rendered[k].i + 1] > conf_threshold
          /\ confidences[rendered[k].i + 1] >= score_threshold

\* C8 as stated: a retained detection is strictly above conf_threshold and
\* not below score_threshold, and a detection whose confidence equals
\* score_threshold is not discarded by the score gate.
C8_GateKeepsEqual ==
    /\ GatesCompose
    /\ FrameSuppressed =>
          \A i \in DetIdx :
              /\ Retained(i) => (/\ confidences[i + 1] > conf_threshold
                                 /\ confidences[i + 1] >= score_threshold)
              /\ confidences[i + 1] = score_threshold => (Retained(i) \/ Overlapped(i))

\* C8 as amended: a retained detection is strictly above conf_threshold and
\* strictly above score_threshold; a detection whose confidence equals
\* score_threshold is discarded by the score gate.
C8_GateDropsEqual ==
    /\ GatesCompose
    /\ FrameSuppressed =>
          \A i \in DetIdx :
              /\ Retained(i) => (/\ confidences[i + 1] > conf_threshold
                                 /\ confidences[i + 1] > score_threshold)
              /\ confidences[i + 1] = score_threshold => ~Retained(i)

\* a video frame with a detection at exactly 0.8, which the decoder kept and
\* the suppressor did not, and another detection that was drawn
C8_Witness ==
    /\ mode = "video" /\ pc = "poll"
    /\ Len(rendered) = 1
    /\ \E i \in DetIdx : confidences[i + 1] = score_threshold /\ ~Retained(i)

\* C9: a row whose score vector is not of the length of the class list stops
\* the decode loop with a ShapeMismatch error: the decode loop does not
\* complete over such a row, and no class id outside 0..K-1 enters class_ids.
C9_ShapeMismatchFailsFast ==
    mode \in {"image", "video"} =>
        /\ \A i \in 1..Len(class_ids) : class_ids[i] \in 0..(K - 1)
        /\ pc \in {"suppress", "render", "poll", "waitkey"} =>
              \A i \in 1..Len(Rows(outs)) : Len(Rows(outs)[i].scores) = K

\* the statements of the still-image cell in the order they can run
ImageOrder == <<"acquire", "decode", "suppress", "render", "waitkey", "teardown", "done">>
ImageStage(p) == CHOOSE n \in 1..Len(ImageOrder) : ImageOrder[n] = p

\* C11: the still-image cell runs one iteration and no second one: each of
\* acquisition with inference, decode, suppression and render runs at most
\* once and in that order; after the render the cell waits for a key with the
\* window shown, and the window is destroyed only after the key, exactly once.
C11_OneIterationThenAck ==
    /\ [][mode = "image" =>
            /\ pc \notin {"done", "error"}
            /\ pc' = "error" \/ ImageStage(pc') = ImageStage(pc) + 1
            /\ outs' # outs => pc = "acquire"
            /\ <<boxes', confidences', class_ids'>> # <<boxes, confidences, class_ids>>
                  => pc \in {"acquire", "decode"}
            /\ indexes' # indexes => pc = "suppress"
            /\ rendered' # rendered => pc \in {"acquire", "render"}
            /\ winDestroys' # winDestroys => (pc = "teardown" /\ pc' = "done")
            /\ pc' = "teardown" => pc = "waitkey"]_vars
    /\ []((mode = "image" /\ pc = "waitkey") => (winOpen /\ winDestroys = 0))
    /\ []((mode = "image" /\ pc \notin {"done"}) => winDestroys = 0)
    /\ []((mode = "image" /\ pc = "done") => (winDestroys = 1 /\ ~winOpen))

\* the still-image cell has drawn a detection, was acknowledged and has ended
C11_Witness ==
    mode = "image" /\ pc = "done" /\ Len(rendered) >= 1 /\ winDestroys = 1

\* the three lists hold what the decode loop makes of the rows of the frame
\* now in outs, and of nothing else
ListsOfCurrentFrame ==
    /\ Len(boxes) = Len(AcceptedRows)
    /\ Len(confidences) = Len(AcceptedRows)
    /\ Len(class_ids) = Len(AcceptedRows)
    /\ \A i \in 1..Len(AcceptedRows) :
          /\ boxes[i] = DecodeBox(AcceptedRows[i], width, height)
          /\ confidences[i] = MaxScore(AcceptedRows[i])

\* C12: in the video loop the decode of every iteration starts from empty
\* lists, so the detections suppressed and drawn in an iteration are those
\* decoded from the rows of its frame; from one iteration to the next only the
\* frame counter, which goes up by one with every frame read, and the start
\* timestamp, which never changes, are carried.
C12_NoCrossFrameDetections ==
    /\ []((mode = "video" /\ pc = "decode") =>
            (boxes = <<>> /\ confidences = <<>> /\ class_ids = <<>> /\ rendered = <<>>))
    /\ []((mode = "video" /\ pc # "decode") => ListsOfCurrentFrame)
    /\ []((mode = "video" /\ pc \in {"render", "poll", "release", "done"}) =>
            \A k \in 1..Len(indexes) : indexes[k] \in DetIdx)
    /\ [](mode = "video" =>
            \A k \in 1..Len(rendered) :
                /\ rendered[k].i \in DetIdx
                /\ Retained(rendered[k].i)
                /\ rendered[k].box = boxes[rendered[k].i + 1])
    /\ [](mode = "video" => (frame_id \in 0..MaxFrames /\ starting_time = 0))
    /\ [][mode = "video" =>
            /\ starting_time' = starting_time
            /\ frame_id' = IF pc = "acquire" THEN frame_id + 1 ELSE frame_id]_vars

\* the second frame of a run was decoded and drawn, the first having had
\* detections of its own
C12_Witness ==
    /\ mode = "video" /\ pc = "poll" /\ frame_id = 2
    /\ Len(boxes) = 1 /\ Len(rendered) = 1

\* the class a row is decoded to: the first position of its largest score,
\* counted from 0
FirstMaxClass(d) ==
    CHOOSE c \in 0..(Len(d.scores) - 1) :
        /\ d.scores[c + 1] = MaxScore(d)
        /\ \A b \in 0..(c - 1) : d.scores[b + 1] < MaxScore(d)

RenderCompleted == pc \in {"poll", "waitkey", "teardown", "release", "done"}

\* C13: after the decode the three lists are the accepted rows of the frame in
\* input order, entry i of each list taken from the same row; the suppressor
\* only filters: the retained detections are drawn in ascending decode index,
\* each at most once and, when the render loop ran to its end, each exactly
\* once, whatever the order of the suppressor's result.
C13_InputOrderKept ==
    (mode \in {"image", "video"} /\ pc \notin {"acquire", "decode", "error"}) =>
        /\ ListsOfCurrentFrame
        /\ \A i \in 1..Len(AcceptedRows) : class_ids[i] = FirstMaxClass(AcceptedRows[i])
        /\ \A k \in 1..Len(rendered) :
              /\ rendered[k].i \in DetIdx
              /\ Retained(rendered[k].i)
              /\ rendered[k].box = boxes[rendered[k].i + 1]
              /\ rendered[k].label = classes[class_ids[rendered[k].i + 1] + 1]
        /\ \A k, l \in 1..Len(rendered) : k < l => rendered[k].i < rendered[l].i
        /\ RenderCompleted =>
              { rendered[k].i : k \in 1..Len(rendered) } = { i \in DetIdx : Retained(i) }

\* two detections drawn in decode order although the suppressor returned the
\* second, of higher confidence, first
C13_Witness ==
    /\ mode \in {"image", "video"} /\ RenderCompleted
    /\ Len(rendered) = 2 /\ Len(indexes) = 2
    /\ indexes[1] > indexes[2]
    /\ confidences[rendered[1].i + 1] < confidences[rendered[2].i + 1]

\* the retained detections the render loop has not drawn, and the one it was
\* at when an exception ended it
Undrawn ==
    { i \in DetIdx : Retained(i) /\ \A k \in 1..Len(rendered) : rendered[k].i # i }
FirstUndrawn == CHOOSE i \in Undrawn : \A j \in Undrawn : i <= j

RenderFailed == pc = "error" /\ err = "IndexError"

\* C14: every lookup in the colour table made while rendering uses an index
\* inside the table of K entries: the class id in the video loop, the position
\* i of the detection in the still-image cell; so every drawing has a colour
\* index below K, and a render loop ended by an IndexError was ended by the
\* label lookup classes[class_ids[i]], never by the colour lookup.
C14_ColorLookupInRange ==
    mode \in {"image", "video"} =>
        /\ \A k \in 1..Len(rendered) :
              /\ rendered[k].color = ColorIndex(mode, rendered[k].i, class_ids)
              /\ rendered[k].color \in 0..(K - 1)
        /\ RenderFailed => class_ids[FirstUndrawn + 1] >= K

====
